---------------------------- MODULE Spec2Model ----------------------------
(***************************************************************************)
(* A model of src/sprytile_modal.py: the Sprytile modal paint/build tool.  *)
(*                                                                         *)
(* World-space lengths are integers in model units of 0.025 world units,   *)
(* so that the literals of the source are whole numbers: the motion        *)
(* threshold 0.1 is 4 units and the coplanar tolerance 0.05 is 2 units.    *)
(* Vectors are triples <<x, y, z>>.  Unit vectors are the six signed world *)
(* axes (the only directions snap_vector_to_axis returns).                 *)
(***************************************************************************)
EXTENDS Integers, Sequences, FiniteSets, TLC

VARIABLES
    virtual_cursor,       \* self.virtual_cursor: deque([], 3) of world points
    paint_normal_vector,  \* scene.sprytile_data.paint_normal_vector
    paint_up_vector,      \* scene.sprytile_data.paint_up_vector
    normal_mode,          \* scene.sprytile_data.normal_mode
    config,               \* externally owned settings read by the tool
    gui_use_mouse,        \* scene.sprytile_data.gui_use_mouse
    cursor_location,      \* scene.cursor_location
    faces,                \* the edit mesh: faces with loops' UVs and material
    tree,                 \* self.tree: "None" or the geometry it was built from
    left_down,            \* self.left_down
    want_snap,            \* self.want_snap
    refresh_mesh,         \* self.refresh_mesh
    key_trap,             \* self.key_trap restricted to 'Z' and 'Y'
    is_running,           \* scene.sprytile_data.is_running
    view_axis_timer,      \* the window manager's timer is registered
    modal_result,         \* what the last modal() call returned, or "ERROR"
    undo_stack,           \* the host's undo steps (mesh snapshots)
    button_held,          \* the physical left button, as the user holds it
    last_call,            \* trace of the last event: what it ran, and on what
    grid_call,            \* arguments of the last get_grid_pos study call
    grid_ret,             \* its result and the result of re-snapping it
    snap_call,            \* arguments of a snap_vector_to_axis call
    snap_ret              \* its result

vars == <<virtual_cursor, paint_normal_vector, paint_up_vector, normal_mode,
          config, gui_use_mouse, cursor_location, faces, tree, left_down,
          want_snap, refresh_mesh, key_trap, is_running, view_axis_timer,
          modal_result, undo_stack, button_held, last_call,
          grid_call, grid_ret, snap_call, snap_ret>>

---------------------------------------------------------------------------
(* mathutils.Vector on integer triples *)

Abs(n) == IF n < 0 THEN -n ELSE n

Sign(n) == IF n < 0 THEN -1 ELSE IF n > 0 THEN 1 ELSE 0

Zero3 == <<0, 0, 0>>

Dot(a, b) == a[1] * b[1] + a[2] * b[2] + a[3] * b[3]

VAdd(a, b) == <<a[1] + b[1], a[2] + b[2], a[3] + b[3]>>

VSub(a, b) == <<a[1] - b[1], a[2] - b[2], a[3] - b[3]>>

VScale(a, k) == <<a[1] * k, a[2] * k, a[3] * k>>

Cross(a, b) == <<a[2] * b[3] - a[3] * b[2],
                 a[3] * b[1] - a[1] * b[3],
                 a[1] * b[2] - a[2] * b[1]>>

MagSq(a) == Dot(a, a)

AxisX == <<1, 0, 0>>

AxisY == <<0, 1, 0>>

AxisZ == <<0, 0, 1>>

UnitAxes == {AxisX, AxisY, AxisZ, VScale(AxisX, -1), VScale(AxisY, -1), VScale(AxisZ, -1)}

---------------------------------------------------------------------------
(* Program constants, in model units *)

\* add_virtual_cursor: last_vector.magnitude < 0.1  (0.1 world = 4 units)
MotionThreshold == 4

\* execute_build: abs(check_coplanar) < 0.05  (0.05 world = 2 units)
CoplanarTolerance == 2

\* execute_build: abs(check_dot) < 0.05, in hundredths
DotTolerance == 5

\* invoke: deque([], 3)
HistoryCapacity == 3

\* model units per world unit: 0.1 world is MotionThreshold units
UnitsPerWorld == 10 * MotionThreshold

---------------------------------------------------------------------------
(* The trace of one event or call: what was delivered (type, inside, pos),  *)
(* what the state was before it (len_before, faces_before), and what the   *)
(* handler did (ran, raycast, stale, path, hit, hit_dot, hit_dist,         *)
(* uv_noop, note, build: the arguments build_face was called with, and     *)
(* uv_face: the face uv_map_face wrote, plane: whether the ray met the     *)
(* grid plane, flow: the arguments flow_cursor was called with).           *)

NoBuild ==
    [called |-> FALSE, face_position |-> Zero3, x_vector |-> Zero3, y_vector |-> Zero3,
     up_vector |-> Zero3, right_vector |-> Zero3]

NoFlow == [called |-> FALSE, face_index |-> 0, virtual_cursor |-> Zero3]

EmptyTrace ==
    [type |-> "NONE", inside |-> FALSE, pos |-> Zero3,
     len_before |-> 0, faces_before |-> 0,
     ran |-> "none", raycast |-> FALSE, stale |-> FALSE, path |-> "none",
     hit |-> FALSE, hit_dot |-> 0, hit_dist |-> 0, uv_noop |-> FALSE,
     note |-> "none", build |-> NoBuild, uv_face |-> 0, plane |-> "none",
     flow |-> NoFlow]

---------------------------------------------------------------------------
(* snap_vector_to_axis: 1 - |n.axis| is least where |component| is greatest; *)
(* min() returns the first least element, so ties go to X, then Y, then Z.   *)

\* a variant in which min() returns the last least element
ClosestAxis_last(ax, ay, az) ==
    IF az >= ax /\ az >= ay THEN 3
    ELSE IF ay >= ax THEN 2
    ELSE 1

\* lines 46-57: the index of the axis chosen, for the |components| of the vector
ClosestAxis(ax, ay, az) ==
    IF ax >= ay /\ ax >= az THEN 1
    ELSE IF ay >= az THEN 2
    ELSE 3

snap_vector_to_axis(vector, mirrored) ==
    LET idx == ClosestAxis(Abs(vector[1]), Abs(vector[2]), Abs(vector[3]))
        snapped_vector == <<IF idx = 1 THEN 1 ELSE 0,
                            IF idx = 2 THEN 1 ELSE 0,
                            IF idx = 3 THEN 1 ELSE 0>>
        vector_dot == vector[idx]
    IN  IF ~mirrored /\ vector_dot < 0 THEN VScale(snapped_vector, -1)
        ELSE IF mirrored /\ vector_dot > 0 THEN VScale(snapped_vector, -1)
        ELSE snapped_vector

---------------------------------------------------------------------------
(* The virtual cursor: add_virtual_cursor, get_virtual_cursor_vector *)

\* a deque without a maximum length
deque_append_unbounded(dq, item) == Append(dq, item)

\* deque(maxlen=3).append: the oldest entry is dropped when full
deque_append(dq, item) ==
    IF Len(dq) >= HistoryCapacity THEN Append(Tail(dq), item)
    ELSE Append(dq, item)

RECURSIVE SegmentSum(_, _)
SegmentSum(vc, idx) ==
    IF idx >= Len(vc) THEN Zero3
    ELSE VAdd(VSub(vc[idx + 1], vc[idx]), SegmentSum(vc, idx + 1))

\* The direction is the sum of the segments divided by cursor_len (the number
\* of entries): kept as the exact fraction sum / div.
get_virtual_cursor_vector(vc) ==
    LET cursor_len == Len(vc)
    IN  IF cursor_len <= 1 THEN [sum |-> Zero3, div |-> 1]
        ELSE [sum |-> SegmentSum(vc, 1), div |-> cursor_len]

\* sign of cursor_vector.dot(v): div is positive
DirectionDot(cursor_vector, v) == Dot(cursor_vector.sum, v)

\* variants of the steps of add_virtual_cursor: no motion threshold, no reset
BelowThreshold_never(last_vector) == FALSE

ClearOnReversal_keep(vc, cursor_vector, last_vector) == vc

\* last_vector.magnitude < 0.1
BelowThreshold(last_vector) == MagSq(last_vector) < MotionThreshold * MotionThreshold

\* if cursor_vector.dot(last_vector) < 0: self.virtual_cursor.clear()
ClearOnReversal(vc, cursor_vector, last_vector) ==
    IF DirectionDot(cursor_vector, last_vector) < 0 THEN <<>> ELSE vc

add_virtual_cursor(vc, cursor_pos) ==
    LET cursor_len == Len(vc)
    IN  IF cursor_len = 0 THEN deque_append(vc, cursor_pos)
        ELSE LET last_pos == vc[cursor_len]
                 last_vector == VSub(cursor_pos, last_pos)
                 cursor_vector == get_virtual_cursor_vector(vc)
             IN  IF BelowThreshold(last_vector) THEN vc
                 ELSE deque_append(ClearOnReversal(vc, cursor_vector, last_vector),
                                   cursor_pos)

---------------------------------------------------------------------------
(* find_view_axis: the new frame and history, given the view's forward and *)
(* up vectors (region_2d_to_vector_3d, view_rotation * (0,1,0)).           *)

ModeOfNormal(plane_normal) ==
    IF Abs(plane_normal[1]) > 0 THEN "X"
    ELSE IF Abs(plane_normal[2]) > 0 THEN "Y"
    ELSE "Z"

\* a variant of find_view_axis that keeps the history across a mode switch
ClearOnModeChange_keep(vc, new_mode, old_mode) == vc

\* if new_mode != scene.sprytile_data.normal_mode: self.virtual_cursor.clear()
ClearOnModeChange(vc, new_mode, old_mode) == IF new_mode # old_mode THEN <<>> ELSE vc

\* lines 188-200, for the snapped normal and up
SetViewAxis(s, plane_normal, up_vector, new_mode) ==
    [s EXCEPT !.paint_normal_vector = plane_normal,
              !.paint_up_vector = up_vector,
              !.virtual_cursor = ClearOnModeChange(@, new_mode, s.normal_mode),
              !.normal_mode = new_mode,
              !.trace.note = IF new_mode # s.normal_mode THEN "mode_change"
                             ELSE "same_mode"]

\* a variant of find_view_axis that stores the snapped vectors unchecked
FrameCheck_unchecked(s, plane_normal, up_vector) ==
    SetViewAxis(s, plane_normal, up_vector, ModeOfNormal(plane_normal))

\* lines 185-186
FrameCheck(s, plane_normal, up_vector) ==
    IF Dot(plane_normal, up_vector) # 0 THEN [s EXCEPT !.trace.note = "not_perpendicular"]
    ELSE SetViewAxis(s, plane_normal, up_vector, ModeOfNormal(plane_normal))

find_view_axis(s, view_vector, view_up_vector) ==
    IF s.config.lock_normal THEN [s EXCEPT !.trace.note = "locked"]
    ELSE FrameCheck(s, snap_vector_to_axis(view_vector, TRUE),
                    snap_vector_to_axis(view_up_vector, FALSE))

---------------------------------------------------------------------------
(* get_grid_pos.  The sign test uses position.normalized(), the sample     *)
(* itself and not its offset from grid_center; only its sign matters.      *)

\* grid_x / world_pixels, a world length, in model units
CellUnit(grid_n, world_pixels) == (UnitsPerWorld * grid_n) \div world_pixels

\* math.floor(magnitude / unit): \div rounds toward minus infinity
GridSnap(magnitude, unit) == magnitude \div unit

\* right_vector *= -1 when right_vector.dot(pos_vector_normalized) < 0
Reorient(basis_vector, position) ==
    IF Dot(basis_vector, position) < 0 THEN VScale(basis_vector, -1) ELSE basis_vector

\* a variant of get_grid_pos that places the cell with the unit basis vectors,
\* before they are scaled to one cell
CellPosition_unscaled(grid_center, right_scaled, up_scaled, x_snap, y_snap) ==
    VAdd(VAdd(grid_center, VScale(snap_vector_to_axis(right_scaled, FALSE), x_snap)),
         VScale(snap_vector_to_axis(up_scaled, FALSE), y_snap))

\* grid_center + (right_vector * x_snap) + (up_vector * y_snap), the vectors
\* already scaled to one cell
CellPosition(grid_center, right_scaled, up_scaled, x_snap, y_snap) ==
    VAdd(VAdd(grid_center, VScale(right_scaled, x_snap)), VScale(up_scaled, y_snap))

get_grid_pos(position, grid_center, right_vector, up_vector, world_pixels, grid_x, grid_y) ==
    LET position_vector == VSub(position, grid_center)
        right == Reorient(right_vector, position)
        up == Reorient(up_vector, position)
        x_magnitude == Dot(position_vector, right)
        y_magnitude == Dot(position_vector, up)
        x_unit == CellUnit(grid_x, world_pixels)
        y_unit == CellUnit(grid_y, world_pixels)
        x_snap == GridSnap(x_magnitude, x_unit)
        y_snap == GridSnap(y_magnitude, y_unit)
        right_scaled == VScale(right, x_unit)
        up_scaled == VScale(up, y_unit)
    IN  [grid_pos |-> CellPosition(grid_center, right_scaled, up_scaled, x_snap, y_snap),
         right_vector |-> right_scaled,
         up_vector |-> up_scaled]

\* get_current_grid_vectors: the stored vectors are unit axes already
get_current_grid_vectors(s) ==
    [up_vector |-> s.paint_up_vector,
     right_vector |-> Cross(s.paint_up_vector, s.paint_normal_vector),
     normal_vector |-> s.paint_normal_vector]

---------------------------------------------------------------------------
(* mathutils.geometry and the BVH tree over axis-aligned quads *)

\* intersect_line_plane(p0, p0 + dir, plane_co, plane_no): the infinite line;
\* no point when the line is parallel to the plane.  dir is a signed axis.
intersect_line_plane(p0, dir, plane_co, plane_no) ==
    LET denom == Dot(dir, plane_no)
    IN  IF denom = 0 THEN [hit |-> FALSE, location |-> Zero3]
        ELSE [hit |-> TRUE,
              location |-> VAdd(p0, VScale(dir, Dot(VSub(plane_co, p0), plane_no) * denom))]

distance_point_to_plane(pt, plane_co, plane_no) == Dot(VSub(pt, plane_co), plane_no)

\* the winding's right-hand-rule normal, as a signed axis
FaceNormal(verts) ==
    LET n == Cross(VSub(verts[2], verts[1]), VSub(verts[3], verts[2]))
    IN  <<Sign(n[1]), Sign(n[2]), Sign(n[3])>>

MinOf(S) == CHOOSE x \in S : \A y \in S : x <= y

MaxOf(S) == CHOOSE x \in S : \A y \in S : x >= y

InsideFace(verts, p) ==
    \A k \in 1..3 :
        /\ p[k] >= MinOf({verts[i][k] : i \in 1..Len(verts)})
        /\ p[k] <= MaxOf({verts[i][k] : i \in 1..Len(verts)})

NoHit == [hit |-> FALSE, location |-> Zero3, normal |-> Zero3, face_index |-> 0, distance |-> 0]

\* the ray meets the face's plane at origin + t * dir
RayFaceAt(verts, i, origin, dir, n, t) ==
    IF Dot(dir, n) # 0 /\ t >= 0 /\ InsideFace(verts, VAdd(origin, VScale(dir, t)))
    THEN [hit |-> TRUE, location |-> VAdd(origin, VScale(dir, t)), normal |-> n,
          face_index |-> i, distance |-> t]
    ELSE NoHit

RayFaceOf(verts, i, origin, dir, n) ==
    RayFaceAt(verts, i, origin, dir, n, Dot(VSub(verts[1], origin), n) * Dot(dir, n))

\* where the ray meets face i of the tree's geometry, if it does
RayFace(geom, i, origin, dir) == RayFaceOf(geom[i], i, origin, dir, FaceNormal(geom[i]))

HitSet(geom, origin, dir) == {i \in 1..Len(geom) : RayFace(geom, i, origin, dir).hit}

NearSet(geom, origin, dir, hits) ==
    {i \in hits : \A j \in hits :
        RayFace(geom, i, origin, dir).distance <= RayFace(geom, j, origin, dir).distance}

PickNear(geom, origin, dir, pick, near) ==
    IF near = {} THEN NoHit
    ELSE RayFace(geom, IF pick = "first" THEN MinOf(near) ELSE MaxOf(near), origin, dir)

\* BVHTree.ray_cast: the nearest face met; among coincident faces the tree
\* may report any, so the caller's pick ("first" or "last") decides.
ray_cast(geom, origin, dir, pick) ==
    PickNear(geom, origin, dir, pick, NearSet(geom, origin, dir, HitSet(geom, origin, dir)))

\* BVHTree.FromBMesh: the tree holds the geometry it was built from
Geometry(mesh) == [i \in 1..Len(mesh) |-> mesh[i].verts]

FromBMesh(mesh) == [built |-> TRUE, geom |-> Geometry(mesh)]

TreeNone == [built |-> FALSE, geom |-> <<>>]

\* matrix_world is a translation: world = local + matrix_world
ToWorld(s, p) == VAdd(p, s.config.matrix_world)

ToLocal(s, p) == VSub(p, s.config.matrix_world)

\* location = matrix * location
WorldHit(s, h) == IF h.hit THEN [h EXCEPT !.location = ToWorld(s, h.location)] ELSE h

raycast_object(s, ray, pick) ==
    WorldHit(s, ray_cast(s.tree.geom, ToLocal(s, ray.origin), ray.vector, pick))

---------------------------------------------------------------------------
(* Exact fractions <<numerator, denominator>> in lowest terms, for UVs *)

RECURSIVE GCD(_, _)
GCD(a, b) == IF b = 0 THEN Abs(a) ELSE GCD(b, a % b)

Frac(n, d) ==
    LET g == GCD(Abs(n), Abs(d))
        sgn == IF d < 0 THEN -1 ELSE 1
    IN  <<(sgn * n) \div g, (sgn * d) \div g>>

QAdd(a, b) == Frac(a[1] * b[2] + b[1] * a[2], a[2] * b[2])

QMul(a, b) == Frac(a[1] * b[1], a[2] * b[2])

QZero == <<0, 1>>

QHalf == <<1, 2>>

---------------------------------------------------------------------------
(* uv_map_face *)

DefaultUV == <<QZero, QZero>>

\* a face as bmesh creates it: four loops with the UV layer's default value
NewFace(verts) ==
    [verts |-> verts,
     uv |-> <<DefaultUV, DefaultUV, DefaultUV, DefaultUV>>,
     material_index |-> 0]

\* face.calc_center_median() times the number of vertices
VertSum(verts) == VAdd(VAdd(verts[1], verts[2]), VAdd(verts[3], verts[4]))

\* a variant that does not add (0.5, 0.5) to recenter
LoopUV_uncentred(s, up_vector, right_vector, tile_xy, verts, co) ==
    LET grid == s.config.grid
        size == s.config.texture
        vert_pos4 == VSub(VScale(co, 4), VertSum(verts))
        x == Frac(Dot(right_vector, vert_pos4), 4 * CellUnit(grid[1], s.config.world_pixels))
        y == Frac(Dot(up_vector, vert_pos4), 4 * CellUnit(grid[2], s.config.world_pixels))
    IN  <<QMul(QAdd(x, Frac(tile_xy[1], 1)), Frac(grid[1], size[1])),
          QMul(QAdd(y, Frac(tile_xy[2], 1)), Frac(grid[2], size[2]))>>

\* the UV of one loop vertex (lines 141-152); vert_pos is kept times 4
LoopUV(s, up_vector, right_vector, tile_xy, verts, co) ==
    LET grid == s.config.grid
        world_units == s.config.world_pixels
        size == s.config.texture
        vert_pos4 == VSub(VScale(co, 4), VertSum(verts))
        uv_unit_x == Frac(grid[1], size[1])
        uv_unit_y == Frac(grid[2], size[2])
        x == Frac(Dot(right_vector, vert_pos4), 4 * CellUnit(grid[1], world_units))
        y == Frac(Dot(up_vector, vert_pos4), 4 * CellUnit(grid[2], world_units))
        vx == QMul(QAdd(x, QHalf), uv_unit_x)
        vy == QMul(QAdd(y, QHalf), uv_unit_y)
    IN  <<QAdd(vx, QMul(uv_unit_x, Frac(tile_xy[1], 1))),
          QAdd(vy, QMul(uv_unit_y, Frac(tile_xy[2], 1)))>>

\* the face index is out of range: uv_map_face returns None
FaceOutOfRange(mesh, face_index) == face_index > Len(mesh)

\* sprytile_utils.get_grid_texture(target_grid) is None
TextureMissing(s) == s.config.texture = <<>>

\* returns the new state and whether (face.index, target_grid) was returned
uv_map_face(s, up_vector, right_vector, tile_xy, face_index) ==
    IF FaceOutOfRange(s.faces, face_index) THEN [s |-> s, ok |-> FALSE, face_index |-> 0]
    ELSE IF TextureMissing(s) THEN [s |-> s, ok |-> FALSE, face_index |-> 0]
    ELSE LET face == s.faces[face_index]
             uvs == [i \in 1..4 |->
                        LoopUV(s, up_vector, right_vector, tile_xy, face.verts, face.verts[i])]
         IN  [s |-> [s EXCEPT !.faces[face_index].uv = uvs,
                              !.trace.uv_face = face_index],
              ok |-> TRUE, face_index |-> face_index]

---------------------------------------------------------------------------
(* build_face *)

\* variants of the winding rule: one order for every quadrant, and the two
\* orders exchanged
FaceOrder_fixed(x_positive, y_positive, vtx1, vtx2, vtx3, vtx4) ==
    <<vtx1, vtx4, vtx3, vtx2>>

FaceOrder_exchanged(x_positive, y_positive, vtx1, vtx2, vtx3, vtx4) ==
    IF x_positive = y_positive THEN <<vtx1, vtx2, vtx3, vtx4>>
    ELSE <<vtx1, vtx4, vtx3, vtx2>>

\* Quadrant I, III when x_positive == y_positive; II, IV otherwise
FaceOrder(x_positive, y_positive, vtx1, vtx2, vtx3, vtx4) ==
    IF x_positive = y_positive THEN <<vtx1, vtx4, vtx3, vtx2>>
    ELSE <<vtx1, vtx2, vtx3, vtx4>>

\* self.tree = BVHTree.FromBMesh(self.bmesh) after the face is added
RebuildAfterBuild(mesh) == FromBMesh(mesh)

build_face(s, position, x_vector, y_vector, up_vector, right_vector) ==
    LET face_position == ToLocal(s, position)
        x_positive == Dot(right_vector, x_vector) > 0
        y_positive == Dot(up_vector, y_vector) > 0
        vtx1 == face_position
        vtx2 == VAdd(face_position, y_vector)
        vtx3 == VAdd(VAdd(face_position, x_vector), y_vector)
        vtx4 == VAdd(face_position, x_vector)
        mesh == Append(s.faces, NewFace(FaceOrder(x_positive, y_positive, vtx1, vtx2, vtx3, vtx4)))
    IN  [s |-> [s EXCEPT !.faces = mesh, !.tree = RebuildAfterBuild(mesh),
                         !.trace.build = [called |-> TRUE, face_position |-> face_position,
                                          x_vector |-> x_vector, y_vector |-> y_vector,
                                          up_vector |-> up_vector,
                                          right_vector |-> right_vector]],
         face_index |-> Len(mesh)]

---------------------------------------------------------------------------
(* flow_cursor.  max_dot stays 1.0, so every vertex with                    *)
(* |1 - cos| < 1, that is with a positive dot product against the          *)
(* direction, replaces the choice: the last such vertex wins.              *)

RECURSIVE FlowScan(_, _, _, _, _)
FlowScan(s, verts, idx, virtual_cursor_pos, closest) ==
    IF idx > Len(verts) THEN closest
    ELSE LET vert_world_pos == ToWorld(s, verts[idx])
             vert_vector == VSub(vert_world_pos, virtual_cursor_pos)
             direction == get_virtual_cursor_vector(s.virtual_cursor)
             nearer == DirectionDot(direction, vert_vector) > 0
         IN  FlowScan(s, verts, idx + 1, virtual_cursor_pos,
                      IF nearer THEN [idx |-> idx, pos |-> vert_world_pos] ELSE closest)

\* lines 238-255, for the face and the history of at least two entries
FlowOnFace(s, face_index, virtual_cursor_pos) ==
    IF face_index > Len(s.faces) THEN [s EXCEPT !.raised = TRUE]
    ELSE LET closest == FlowScan(s, s.faces[face_index].verts, 1, virtual_cursor_pos,
                                 [idx |-> 0, pos |-> Zero3])
         IN  IF closest.idx # 0 THEN [s EXCEPT !.cursor_location = closest.pos] ELSE s

flow_cursor(s, face_index, virtual_cursor_pos) ==
    IF Len(s.virtual_cursor) <= 1
    THEN [s EXCEPT !.trace.flow = [called |-> TRUE, face_index |-> face_index,
                                   virtual_cursor |-> virtual_cursor_pos]]
    ELSE FlowOnFace([s EXCEPT !.trace.flow = [called |-> TRUE, face_index |-> face_index,
                                              virtual_cursor |-> virtual_cursor_pos]],
                    face_index, virtual_cursor_pos)

---------------------------------------------------------------------------
(* execute_paint, execute_build, cursor_snap, execute_tool.  s.trace notes  *)
(* what the event did; s.raised is set where Python raises.  Each step of  *)
(* a handler is an operator over the state the step before it left.        *)

\* the trace of a mesh raycast: whether the tree read was the mesh's geometry
NoteRaycast(s) ==
    [s EXCEPT !.trace.raycast = TRUE,
              !.trace.stale = @ \/ (s.tree.geom # Geometry(s.faces))]

\* the trace of uv_map_face's return
NoteUV(r) == [r.s EXCEPT !.trace.uv_noop = ~r.ok]

TileXY(s) == s.config.tile_selection

\* lines 307-310: "face_index, grid = uv_map_face(...)" raises TypeError when
\* uv_map_face returned None; else the material is set when it exists
AssignMaterial(r, mat_id) ==
    IF ~r.ok THEN [NoteUV(r) EXCEPT !.raised = TRUE]
    ELSE IF mat_id > -1 THEN [r.s EXCEPT !.faces[r.face_index].material_index = mat_id]
    ELSE r.s

\* lines 302-310, for the raycast's result h
PaintHit(s, h, gv) ==
    IF ~h.hit THEN [s EXCEPT !.trace.path = "miss"]
    ELSE AssignMaterial(
            uv_map_face([s EXCEPT !.virtual_cursor = add_virtual_cursor(@, h.location),
                                  !.trace.hit = TRUE, !.trace.path = "paint"],
                        gv.up_vector, gv.right_vector, TileXY(s), h.face_index),
            s.config.mat_id)

execute_paint(s, ray, pick) ==
    PaintHit(NoteRaycast(s), raycast_object(s, ray, pick), get_current_grid_vectors(s))

\* a variant of the gate that passes a normal against the plane normal
PaintOverGate_opposite(check_dot, check_coplanar) ==
    /\ 100 * Abs(check_dot + 1) < DotTolerance
    /\ Abs(check_coplanar) < CoplanarTolerance

\* abs(plane_normal.dot(hit_normal) - 1) < 0.05 and abs(distance) < 0.05
PaintOverGate(check_dot, check_coplanar) ==
    /\ 100 * Abs(check_dot - 1) < DotTolerance
    /\ Abs(check_coplanar) < CoplanarTolerance

GridOfPlanePos(g, plane_pos) ==
    [hit |-> TRUE, grid_position |-> g.grid_pos, x_vector |-> g.right_vector,
     y_vector |-> g.up_vector, plane_pos |-> plane_pos]

RaycastGridAt(s, up_vector, right_vector, plane_pos) ==
    IF ~plane_pos.hit
    THEN [hit |-> FALSE, grid_position |-> Zero3, x_vector |-> Zero3,
          y_vector |-> Zero3, plane_pos |-> Zero3]
    ELSE GridOfPlanePos(
            get_grid_pos(plane_pos.location, s.cursor_location, right_vector, up_vector,
                         s.config.world_pixels, s.config.grid[1], s.config.grid[2]),
            plane_pos.location)

raycast_grid(s, up_vector, right_vector, plane_normal, ray) ==
    RaycastGridAt(s, up_vector, right_vector,
                  intersect_line_plane(ray.origin, ray.vector, s.cursor_location, plane_normal))

\* if scene.sprytile_data.cursor_flow: self.flow_cursor(...)
FlowIf(s, face_index, virtual_cursor_pos) ==
    IF s.config.cursor_flow THEN flow_cursor(s, face_index, virtual_cursor_pos) ELSE s

\* lines 352-354, for build_face's result b
MapBuiltFace(b, gv, plane_cursor) ==
    FlowIf(NoteUV(uv_map_face(b.s, gv.up_vector, gv.right_vector, TileXY(b.s), b.face_index)),
           b.face_index, plane_cursor)

\* a variant of execute_build that does not test raycast_grid's result
BuildAt_unchecked(s, rg, gv) ==
    MapBuiltFace(
        build_face([s EXCEPT !.virtual_cursor = add_virtual_cursor(@, rg.plane_pos),
                             !.trace.path = "new_face"],
                   rg.grid_position, rg.x_vector, rg.y_vector,
                   gv.up_vector, gv.right_vector),
        gv, rg.plane_pos)

\* lines 343-354, for raycast_grid's result rg
BuildAt(s, rg, gv) ==
    IF ~rg.hit THEN [s EXCEPT !.trace.path = "no_plane"]
    ELSE MapBuiltFace(
            build_face([s EXCEPT !.virtual_cursor = add_virtual_cursor(@, rg.plane_pos),
                                 !.trace.path = "new_face"],
                       rg.grid_position, rg.x_vector, rg.y_vector,
                       gv.up_vector, gv.right_vector),
            gv, rg.plane_pos)

\* the trace of raycast_grid's line-plane intersection
NotePlane(s, gv, ray) ==
    [s EXCEPT !.trace.plane =
        IF intersect_line_plane(ray.origin, ray.vector, s.cursor_location,
                                gv.normal_vector).hit
        THEN "hit" ELSE "miss"]

\* lines 339-354: the new-face path
BuildNewFace(s, gv, ray) ==
    BuildAt(NotePlane(s, gv, ray),
            raycast_grid(s, gv.up_vector, gv.right_vector, gv.normal_vector, ray), gv)

\* lines 332-337: the existing face is UV-mapped instead
PaintOver(s, h, gv) ==
    FlowIf(NoteUV(uv_map_face([s EXCEPT !.virtual_cursor = add_virtual_cursor(@, h.location),
                                        !.trace.path = "paint_over"],
                              gv.up_vector, gv.right_vector, TileXY(s), h.face_index)),
           h.face_index, h.location)

\* line 331
GateHit(s, h, gv, ray, gate) ==
    IF gate THEN PaintOver(s, h, gv) ELSE BuildNewFace(s, gv, ray)

\* lines 321-354, for the raycast's result h
BuildHit(s, h, gv, ray) ==
    LET check_dot == Dot(gv.normal_vector, h.normal)
        check_coplanar == distance_point_to_plane(h.location, s.cursor_location,
                                                  gv.normal_vector)
    IN  IF h.hit
        THEN GateHit([s EXCEPT !.trace.hit = TRUE, !.trace.hit_dot = check_dot,
                               !.trace.hit_dist = check_coplanar],
                     h, gv, ray, PaintOverGate(check_dot, check_coplanar))
        ELSE BuildNewFace(s, gv, ray)

execute_build(s, ray, pick) ==
    BuildHit(NoteRaycast(s), raycast_object(s, ray, pick), get_current_grid_vectors(s), ray)

\* lines 291-296
RunTool(s, ray, pick) ==
    IF s.config.paint_mode = "PAINT" THEN execute_paint(s, ray, pick)
    ELSE IF s.config.paint_mode = "MAKE_FACE" THEN execute_build(s, ray, pick)
    ELSE s

\* a variant of the guard that does not read gui_use_mouse
ToolGuard_tree_only(s) == ~s.tree.built

\* a variant of the guard that does not read the tree
ToolGuard_gui_only(s) == s.gui_use_mouse

\* if self.tree is None or gui_use_mouse is True: return
ToolGuard(s) == ~s.tree.built \/ s.gui_use_mouse

execute_tool(s, ray, pick) ==
    IF ToolGuard(s) THEN s
    ELSE RunTool([s EXCEPT !.trace.ran = "execute_tool"], ray, pick)

\* the first vertex of the face at least distance from location (strict <)
RECURSIVE NearestVertex(_, _, _, _)
NearestVertex(verts, location, idx, closest) ==
    IF idx > Len(verts) THEN closest
    ELSE NearestVertex(verts, location, idx + 1,
                       IF closest = 0
                          \/ MagSq(VSub(location, verts[idx])) < MagSq(VSub(location, verts[closest]))
                       THEN idx ELSE closest)

\* lines 408-419
SnapGrid(s, location, gv) ==
    IF ~location.hit THEN s
    ELSE [s EXCEPT !.cursor_location =
            get_grid_pos(location.location, s.cursor_location, gv.right_vector,
                         gv.up_vector, s.config.world_pixels,
                         s.config.grid[1], s.config.grid[2]).grid_pos]

\* lines 443-445
SnapToVertex(s, verts, closest_vtx) ==
    [s EXCEPT !.cursor_location = ToWorld(s, verts[closest_vtx])]

\* lines 422-445: find_nearest of the hit point is on the face that was hit;
\* bm.faces[face_index] is read from the mesh as it is now
SnapVertex(s, h) ==
    IF ~h.hit THEN s
    ELSE IF h.face_index > Len(s.faces) THEN [s EXCEPT !.raised = TRUE]
    ELSE SnapToVertex(s, s.faces[h.face_index].verts,
                      NearestVertex(s.faces[h.face_index].verts, ToLocal(s, h.location), 1, 0))

RunSnap(s, ray, pick) ==
    IF s.config.cursor_snap = "GRID"
    THEN SnapGrid(s, intersect_line_plane(ray.origin, ray.vector, s.cursor_location,
                                          s.paint_normal_vector),
                  get_current_grid_vectors(s))
    ELSE IF s.config.cursor_snap = "VERTEX"
    THEN SnapVertex(NoteRaycast(s), raycast_object(s, ray, pick))
    ELSE s

cursor_snap(s, ray, pick) ==
    IF ToolGuard(s) THEN s
    ELSE RunSnap([s EXCEPT !.trace.ran = "cursor_snap"], ray, pick)

---------------------------------------------------------------------------
(* The host's undo collaborator: bpy.ops.ed.undo_push, and the undo it runs *)
(* when the tool passes Ctrl+Z through.  A redo (Ctrl+Y) is passed through *)
(* the same way; the steps it would restore are not kept here.             *)

\* undo steps the host keeps; the oldest is dropped
MaxUndo == 2

undo_push(s) ==
    LET pushed == Append(s.undo_stack, s.faces)
    IN  [s EXCEPT !.undo_stack = IF Len(pushed) > MaxUndo THEN Tail(pushed) ELSE pushed]

HostUndo(s) ==
    IF Len(s.undo_stack) > 1
    THEN [s EXCEPT !.undo_stack = SubSeq(@, 1, Len(@) - 1),
                   !.faces = s.undo_stack[Len(s.undo_stack) - 1]]
    ELSE [s EXCEPT !.faces = s.undo_stack[1]]

---------------------------------------------------------------------------
(* exit_modal, handle_keys, handle_mouse, modal *)

exit_modal(s) ==
    [s EXCEPT !.is_running = FALSE,
              !.tree = TreeNone,
              !.key_trap = [Z |-> FALSE, Y |-> FALSE],
              !.view_axis_timer = FALSE]

\* pass_undo_keys = get_key('Z') or get_key('Y')
PassUndoKeys(trap) == trap.Z \/ trap.Y

\* lines 517-518
TrapKey(s, event) ==
    IF event.type = "Z" THEN [s EXCEPT !.key_trap.Z = (event.value = "PRESS")]
    ELSE IF event.type = "Y" THEN [s EXCEPT !.key_trap.Y = (event.value = "PRESS")]
    ELSE s

\* lines 521-531
KeysAfterTrap(s, event) ==
    IF event.ctrl /\ PassUndoKeys(s.key_trap)
    THEN [s |-> [s EXCEPT !.refresh_mesh = TRUE], ret |-> "PASS_THROUGH"]
    ELSE IF event.type = "S"
    THEN [s |-> [s EXCEPT !.want_snap = (event.value = "PRESS")], ret |-> "None"]
    ELSE [s |-> s, ret |-> "None"]

handle_keys(s, event) == KeysAfterTrap(TrapKey(s, event), event)

\* 'MOUSE' in event.type
IsMouseType(type) == type \in {"LEFTMOUSE", "MOUSEMOVE", "RIGHTMOUSE", "MIDDLEMOUSE"}

\* the exit branch of handle_mouse (line 500)
IsCancel(s, event) == event.type \in {"RIGHTMOUSE", "ESC"} /\ ~s.gui_use_mouse

\* MOUSEMOVE runs the tool while self.left_down
MoveRunsTool(s) == s.left_down

\* LEFTMOUSE press: the tree is rebuilt from the edit mesh before the tool runs
RebuildOnPress(s) == [s EXCEPT !.tree = FromBMesh(s.faces)]

\* lines 486-492
LeftMouse(s, event) ==
    IF s.left_down
    THEN [s |-> execute_tool(RebuildOnPress(s), event.ray, event.pick),
          ret |-> "RUNNING_MODAL"]
    ELSE [s |-> undo_push(s), ret |-> "RUNNING_MODAL"]

handle_mouse(s, event) ==
    IF ~IsMouseType(event.type) THEN [s |-> s, ret |-> "None"]
    ELSE IF event.type = "MIDDLEMOUSE" THEN [s |-> s, ret |-> "PASS_THROUGH"]
    ELSE IF event.type = "LEFTMOUSE"
    THEN LeftMouse([s EXCEPT !.left_down = (event.value = "PRESS")], event)
    ELSE IF event.type = "MOUSEMOVE"
    THEN IF MoveRunsTool(s)
         THEN [s |-> execute_tool(s, event.ray, event.pick), ret |-> "RUNNING_MODAL"]
         ELSE IF s.want_snap
         THEN [s |-> cursor_snap(s, event.ray, event.pick), ret |-> "None"]
         ELSE [s |-> s, ret |-> "None"]
    ELSE IF IsCancel(s, event) THEN [s |-> exit_modal(s), ret |-> "CANCELLED"]
    ELSE [s |-> s, ret |-> "None"]

\* if self.refresh_mesh: the bmesh and the tree are taken again from the mesh
RefreshMesh(s) ==
    IF s.refresh_mesh THEN [s EXCEPT !.tree = FromBMesh(s.faces), !.refresh_mesh = FALSE]
    ELSE s

\* lines 471-475
AfterMouse(m) ==
    IF m.ret # "None" THEN m ELSE [s |-> m.s, ret |-> "RUNNING_MODAL"]

\* lines 467-475
AfterKeys(k, event) ==
    IF k.ret # "None" THEN k ELSE AfterMouse(handle_mouse(k.s, event))

\* lines 458-475
AfterRefresh(s, event) ==
    IF ~event.inside THEN [s |-> s, ret |-> "PASS_THROUGH"]
    ELSE AfterKeys(handle_keys(s, event), event)

modal(s, event) ==
    IF event.type = "TIMER"
    THEN [s |-> find_view_axis(s, event.view_vector, event.view_up_vector),
          ret |-> "PASS_THROUGH"]
    ELSE AfterRefresh(RefreshMesh(s), event)

---------------------------------------------------------------------------
(* Bounds and input sets *)

\* faces the mesh may hold
MaxFaces == 2

\* samples handed to add_virtual_cursor lie on a lattice of this many steps
PosRange == 2

\* get_grid_pos samples reach this many half cells either side of the centre
GridReach == 3

Picks == {"first", "last"}

\* an 8 x 8 pixel grid at 32 pixels per world unit: cells of 10 model units
BaseConfig ==
    [lock_normal |-> FALSE, paint_mode |-> "MAKE_FACE", cursor_flow |-> FALSE,
     cursor_snap |-> "GRID", world_pixels |-> 32, grid |-> <<8, 8>>,
     tile_selection |-> <<2, 1>>, texture |-> <<64, 64>>, mat_id |-> 1,
     matrix_world |-> Zero3]

CellSize == CellUnit(BaseConfig.grid[1], BaseConfig.world_pixels)

\* a quad of one cell in the plane z = z0, wound to face +Z or -Z
QuadZ(x0, y0, z0, up_facing) ==
    LET a == <<x0, y0, z0>>
        b == <<x0 + CellSize, y0, z0>>
        c == <<x0 + CellSize, y0 + CellSize, z0>>
        d == <<x0, y0 + CellSize, z0>>
    IN  NewFace(IF up_facing THEN <<a, b, c, d>> ELSE <<a, d, c, b>>)

\* the frames find_view_axis can store: a signed axis and an up axis across it
Frames ==
    {f \in [normal : UnitAxes, up : UnitAxes] : Dot(f.normal, f.up) = 0}

FrameZ == [normal |-> AxisZ, up |-> AxisY]

FrameY == [normal |-> VScale(AxisY, -1), up |-> AxisZ]

\* a ray of the viewport: where it starts and the view direction (a signed axis)
Ray(origin, vector) == [origin |-> origin, vector |-> vector]

NoRay == Ray(Zero3, AxisZ)

DownRay(x, y) == Ray(<<x, y, 4 * CellSize>>, VScale(AxisZ, -1))

---------------------------------------------------------------------------
(* The state as the handlers see it, and its commit *)

State ==
    [virtual_cursor |-> virtual_cursor, paint_normal_vector |-> paint_normal_vector,
     paint_up_vector |-> paint_up_vector, normal_mode |-> normal_mode,
     config |-> config, gui_use_mouse |-> gui_use_mouse,
     cursor_location |-> cursor_location, faces |-> faces, tree |-> tree,
     left_down |-> left_down, want_snap |-> want_snap, refresh_mesh |-> refresh_mesh,
     key_trap |-> key_trap, is_running |-> is_running,
     view_axis_timer |-> view_axis_timer, undo_stack |-> undo_stack,
     raised |-> FALSE, trace |-> EmptyTrace]

Event(type, value, ctrl, inside, ray, pick, view_vector, view_up_vector) ==
    [type |-> type, value |-> value, ctrl |-> ctrl, inside |-> inside, ray |-> ray,
     pick |-> pick, view_vector |-> view_vector, view_up_vector |-> view_up_vector]

KeyEvent(type, value, ctrl, inside) ==
    Event(type, value, ctrl, inside, NoRay, "first", Zero3, Zero3)

\* the modal handler is registered: the operator has not ended
Handling == modal_result \in {"RUNNING_MODAL", "PASS_THROUGH"}

\* what the host does with an event the tool passed through
HostAfter(r, event) ==
    IF r.s.raised \/ r.ret # "PASS_THROUGH" \/ ~event.ctrl \/ event.value # "PRESS" THEN r.s
    ELSE IF event.type = "Z" THEN HostUndo(r.s)
    ELSE r.s

Store(s) ==
    /\ Len(s.faces) <= MaxFaces
    /\ virtual_cursor' = s.virtual_cursor
    /\ paint_normal_vector' = s.paint_normal_vector
    /\ paint_up_vector' = s.paint_up_vector
    /\ normal_mode' = s.normal_mode
    /\ cursor_location' = s.cursor_location
    /\ faces' = s.faces
    /\ tree' = s.tree
    /\ left_down' = s.left_down
    /\ want_snap' = s.want_snap
    /\ refresh_mesh' = s.refresh_mesh
    /\ key_trap' = s.key_trap
    /\ is_running' = s.is_running
    /\ view_axis_timer' = s.view_axis_timer
    /\ undo_stack' = s.undo_stack
    /\ last_call' = s.trace
    /\ UNCHANGED <<config, gui_use_mouse, grid_call, grid_ret, snap_call, snap_ret>>

\* the event as the trace keeps it
Begin(event) ==
    [State EXCEPT !.trace.type = event.type, !.trace.inside = event.inside,
                  !.trace.len_before = Len(virtual_cursor),
                  !.trace.faces_before = Len(faces)]

\* what modal() returned, or that it raised: the operator then ends
Finish(r, event) ==
    /\ Store(HostAfter(r, event))
    /\ modal_result' = IF r.s.raised THEN "ERROR" ELSE r.ret

\* one event delivered to modal(), and the host's handling of what it passes on
Deliver(event) ==
    /\ Handling
    /\ Finish(modal(Begin(event), event), event)
    /\ button_held' = IF event.type = "LEFTMOUSE" THEN event.value = "PRESS"
                      ELSE button_held

---------------------------------------------------------------------------
(* The events the host delivers, over given sets of inputs *)

View(forward, up) == [forward |-> forward, up |-> up]

TimerOf(views) ==
    /\ view_axis_timer
    /\ \E v \in views :
          Deliver(Event("TIMER", "NOTHING", FALSE, TRUE, NoRay, "first", v.forward, v.up))

LeftPressOf(rays, picks, insides, ctrls) ==
    /\ ~button_held
    /\ \E ray \in rays, inside \in insides, ctrl \in ctrls, pick \in picks :
          Deliver(Event("LEFTMOUSE", "PRESS", ctrl, inside, ray, pick, Zero3, Zero3))

LeftReleaseOf(insides, ctrls) ==
    /\ button_held
    /\ \E inside \in insides, ctrl \in ctrls :
          Deliver(KeyEvent("LEFTMOUSE", "RELEASE", ctrl, inside))

MouseMoveOf(rays, picks, insides, ctrls) ==
    \E ray \in rays, inside \in insides, ctrl \in ctrls, pick \in picks :
        Deliver(Event("MOUSEMOVE", "NOTHING", ctrl, inside, ray, pick, Zero3, Zero3))

ButtonOf(types, insides, ctrls) ==
    \E type \in types, inside \in insides, ctrl \in ctrls :
        Deliver(KeyEvent(type, "PRESS", ctrl, inside))

KeyOf(types, insides, ctrls) ==
    \E type \in types, value \in {"PRESS", "RELEASE"}, inside \in insides, ctrl \in ctrls :
        Deliver(KeyEvent(type, value, ctrl, inside))

\* the GL GUI takes or gives back the mouse
GuiToggle ==
    /\ Handling
    /\ gui_use_mouse' = ~gui_use_mouse
    /\ last_call' = [EmptyTrace EXCEPT !.type = "GUI"]
    /\ UNCHANGED <<virtual_cursor, paint_normal_vector, paint_up_vector, normal_mode,
                   config, cursor_location, faces, tree, left_down, want_snap,
                   refresh_mesh, key_trap, is_running, view_axis_timer, modal_result,
                   undo_stack, button_held, grid_call, grid_ret, snap_call, snap_ret>>

NoGridCall ==
    [position |-> Zero3, grid_center |-> Zero3, right_vector |-> Zero3,
     up_vector |-> Zero3, world_pixels |-> 1, grid_x |-> 1, grid_y |-> 1]

NoGridPos == [grid_pos |-> Zero3, right_vector |-> Zero3, up_vector |-> Zero3]

NoGridRet == [stage |-> "none", first |-> NoGridPos, second |-> NoGridPos]

\* the state invoke() leaves, for a mesh, a frame and settings of the given sets
\* no snap_vector_to_axis call is under study
NoSnapCall ==
    /\ snap_call = [vector |-> Zero3, mirrored |-> FALSE]
    /\ snap_ret = [done |-> FALSE, snapped_vector |-> Zero3]

InitOf(configs, meshes, frames, cursors) ==
    /\ virtual_cursor = <<>>
    /\ \E f \in frames :
          /\ paint_normal_vector = f.normal
          /\ paint_up_vector = f.up
          /\ normal_mode = ModeOfNormal(f.normal)
    /\ config \in configs
    /\ gui_use_mouse = FALSE
    /\ cursor_location \in cursors
    /\ faces \in meshes
    /\ tree = FromBMesh(faces)
    /\ left_down = FALSE
    /\ want_snap = FALSE
    /\ refresh_mesh = FALSE
    /\ key_trap = [Z |-> FALSE, Y |-> FALSE]
    /\ is_running = TRUE
    /\ view_axis_timer = TRUE
    /\ modal_result = "RUNNING_MODAL"
    /\ undo_stack = <<faces>>
    /\ button_held = FALSE
    /\ last_call = EmptyTrace
    /\ grid_ret = NoGridRet

---------------------------------------------------------------------------
(* Spec: a session, from invoke() to its end, under every interleaving of  *)
(* pointer, key, timer and undo/redo events inside and outside the region. *)

SessionConfigs ==
    {[BaseConfig EXCEPT !.paint_mode = m, !.cursor_snap = "VERTEX"] :
        m \in {"PAINT", "MAKE_FACE"}}

SessionMeshes == {<<QuadZ(0, 0, 0, TRUE)>>}

\* one ray onto the quad of the initial mesh, one onto the empty cell beside it
SessionRays ==
    {DownRay(CellSize \div 2, CellSize \div 2),
     DownRay(CellSize + CellSize \div 2, CellSize \div 2)}

SessionViews == {View(VScale(AxisZ, -1), AxisY)}

Init ==
    /\ InitOf(SessionConfigs, SessionMeshes, {FrameZ}, {Zero3})
    /\ grid_call = NoGridCall
    /\ NoSnapCall

Timer ==
    /\ Handling
    /\ TimerOf(SessionViews)

LeftPress ==
    /\ Handling
    /\ LeftPressOf(SessionRays, {"first"}, BOOLEAN, {FALSE})

LeftRelease ==
    /\ Handling
    /\ LeftReleaseOf(BOOLEAN, {FALSE})

MouseMove ==
    /\ Handling
    /\ MouseMoveOf(SessionRays, {"first"}, BOOLEAN, {FALSE})

Cancel ==
    /\ Handling
    /\ ButtonOf({"RIGHTMOUSE", "ESC"}, BOOLEAN, {FALSE})

Navigate ==
    /\ Handling
    /\ ButtonOf({"MIDDLEMOUSE"}, {TRUE}, {FALSE})

UndoKey ==
    /\ Handling
    /\ KeyOf({"Z"}, BOOLEAN, BOOLEAN)

SnapKey ==
    /\ Handling
    /\ KeyOf({"S", "C"}, {TRUE}, {FALSE})

Next ==
    \/ Timer
    \/ LeftPress
    \/ LeftRelease
    \/ MouseMove
    \/ Cancel
    \/ Navigate
    \/ UndoKey
    \/ SnapKey
    \/ GuiToggle

Spec == Init /\ [][Next]_vars

---------------------------------------------------------------------------
(* SpecTool: execute_tool in paint and build mode, on pointer events inside *)
(* the region, over meshes with a quad on the reference plane facing along  *)
(* the plane normal, one facing against it, and one a cell below the plane, *)
(* and a quad two cells wide, with and without a texture on the material.   *)

ToolConfigs ==
    {[BaseConfig EXCEPT !.paint_mode = m, !.texture = x] :
        m \in {"PAINT", "MAKE_FACE"}, x \in {<<>>, BaseConfig.texture}}

\* a quad two cells wide and one high in the plane z = 0, facing +Z
WideQuad ==
    NewFace(<<Zero3, <<2 * CellSize, 0, 0>>, <<2 * CellSize, CellSize, 0>>,
              <<0, CellSize, 0>>>>)

ToolMeshes ==
    {<<QuadZ(0, 0, 0, TRUE)>>, <<QuadZ(0, 0, 0, FALSE)>>, <<QuadZ(0, 0, -CellSize, TRUE)>>,
     <<WideQuad>>}

\* onto the quad, onto the empty cell beside it, and along the plane above it
ToolRays ==
    {DownRay(CellSize \div 2, CellSize \div 2),
     DownRay(CellSize + CellSize \div 2, CellSize \div 2),
     Ray(<<0, CellSize \div 2, CellSize>>, AxisX)}

InitTool ==
    /\ InitOf(ToolConfigs, ToolMeshes, {FrameZ}, {Zero3})
    /\ grid_call = NoGridCall
    /\ NoSnapCall

ToolPress ==
    /\ Handling
    /\ LeftPressOf(ToolRays, Picks, {TRUE}, {FALSE})

ToolRelease ==
    /\ Handling
    /\ LeftReleaseOf({TRUE}, {FALSE})

ToolMove ==
    /\ Handling
    /\ MouseMoveOf(ToolRays, Picks, {TRUE}, {FALSE})

NextTool ==
    \/ ToolPress
    \/ ToolRelease
    \/ ToolMove

SpecTool == InitTool /\ [][NextTool]_vars

---------------------------------------------------------------------------
(* SpecCursor: the virtual cursor under any sequence of samples and ticks.  *)
(* add_virtual_cursor is called with hit points as execute_paint and       *)
(* execute_build call it; the timer re-derives the painting frame.         *)

\* spacing of the sample lattice: 3 units is under the motion threshold,
\* the diagonal and two steps are over it
CursorStep == MotionThreshold - 1

\* the lattice, and one point exactly the motion threshold from the origin
CursorPoints ==
    {<<x * CursorStep, y * CursorStep, 0>> : x \in 0..PosRange, y \in 0..PosRange}
        \cup {<<MotionThreshold, 0, 0>>}

\* top, bottom (the same axis mode), front, side, and a view whose snapped
\* forward and up vectors fall on the same axis
CursorViews ==
    {View(VScale(AxisZ, -1), AxisY), View(AxisZ, AxisY), View(AxisY, AxisZ),
     View(<<-2, 1, 0>>, <<1, 2, 1>>), View(<<1, 1, 0>>, <<1, -1, 0>>)}

CursorConfigs == {[BaseConfig EXCEPT !.lock_normal = l] : l \in BOOLEAN}

InitCursor ==
    /\ InitOf(CursorConfigs, {<<>>}, {FrameZ}, {Zero3})
    /\ grid_call = NoGridCall
    /\ NoSnapCall

\* the case of a sample against the history it is added to: the first, one
\* nearer than the motion threshold, one against the direction, or one along it
SampleCase(vc, pos) ==
    IF Len(vc) = 0 THEN "first"
    ELSE IF MagSq(VSub(pos, vc[Len(vc)])) < MotionThreshold * MotionThreshold THEN "near"
    ELSE IF Dot(SegmentSum(vc, 1), VSub(pos, vc[Len(vc)])) < 0 THEN "reversal"
    ELSE "forward"

AddSample ==
    /\ Handling
    /\ \E pos \in CursorPoints :
          /\ virtual_cursor' = add_virtual_cursor(virtual_cursor, pos)
          /\ last_call' = [EmptyTrace EXCEPT !.type = "add_virtual_cursor", !.pos = pos,
                                             !.len_before = Len(virtual_cursor),
                                             !.note = SampleCase(virtual_cursor, pos)]
    /\ UNCHANGED <<paint_normal_vector, paint_up_vector, normal_mode, config,
                   gui_use_mouse, cursor_location, faces, tree, left_down, want_snap,
                   refresh_mesh, key_trap, is_running, view_axis_timer, modal_result,
                   undo_stack, button_held, grid_call, grid_ret, snap_call, snap_ret>>

CursorTimer ==
    /\ Handling
    /\ TimerOf(CursorViews)

NextCursor ==
    \/ AddSample
    \/ CursorTimer

SpecCursor == InitCursor /\ [][NextCursor]_vars

---------------------------------------------------------------------------
(* SpecGrid: get_grid_pos on samples of a grid plane, and on its own result *)

\* half a cell: samples fall on cell corners and on cell centres
GridHalf == CellSize \div 2

GridCenters == {Zero3, <<2 * CellSize, 0, 0>>, <<-3, CellSize + 4, GridHalf>>}

GridFrames == {FrameZ, FrameY, [normal |-> VScale(AxisZ, -1), up |-> VScale(AxisX, -1)]}

GridCalls ==
    {[position |-> VAdd(c, VAdd(VScale(Cross(f.up, f.normal), a * GridHalf + da),
                                VScale(f.up, b * GridHalf))),
      grid_center |-> c,
      right_vector |-> Cross(f.up, f.normal),
      up_vector |-> f.up,
      world_pixels |-> BaseConfig.world_pixels,
      grid_x |-> BaseConfig.grid[1],
      grid_y |-> g] :
        c \in GridCenters, f \in GridFrames, a \in (-GridReach)..GridReach,
        b \in (-GridReach)..GridReach, da \in {0, 1}, g \in {BaseConfig.grid[2], 16}}

InitGrid ==
    /\ InitOf({BaseConfig}, {<<>>}, {FrameZ}, {Zero3})
    /\ grid_call \in GridCalls
    /\ NoSnapCall

ApplyGridPos(c, position) ==
    get_grid_pos(position, c.grid_center, c.right_vector, c.up_vector,
                 c.world_pixels, c.grid_x, c.grid_y)

UnchangedSession ==
    UNCHANGED <<virtual_cursor, paint_normal_vector, paint_up_vector, normal_mode,
                config, gui_use_mouse, cursor_location, faces, tree, left_down,
                want_snap, refresh_mesh, key_trap, is_running, view_axis_timer,
                modal_result, undo_stack, button_held, last_call>>

\* get_grid_pos on the sample
GridSnapCall ==
    /\ grid_ret.stage = "none"
    /\ grid_ret' = [stage |-> "snapped", first |-> ApplyGridPos(grid_call, grid_call.position),
                    second |-> NoGridPos]
    /\ UNCHANGED <<grid_call, snap_call, snap_ret>>
    /\ UnchangedSession

\* get_grid_pos on the cell position it returned, with the same frame
GridResnapCall ==
    /\ grid_ret.stage = "snapped"
    /\ grid_ret' = [grid_ret EXCEPT !.stage = "resnapped",
                                    !.second = ApplyGridPos(grid_call, grid_ret.first.grid_pos)]
    /\ UNCHANGED <<grid_call, snap_call, snap_ret>>
    /\ UnchangedSession

NextGrid ==
    \/ GridSnapCall
    \/ GridResnapCall

SpecGrid == InitGrid /\ [][NextGrid]_vars

---------------------------------------------------------------------------
(* SpecFlow: one stroke in build mode with cursor flow on, over a quad on   *)
(* the reference plane, the pointer on points of the cells around it.       *)

FlowConfigs == {[BaseConfig EXCEPT !.paint_mode = "MAKE_FACE", !.cursor_flow = TRUE]}

\* the middle of the quad's cell, and points of the cells beside it
FlowRays ==
    {DownRay(CellSize \div 2, CellSize \div 2),
     DownRay(CellSize + 2, 3),
     DownRay(CellSize + CellSize \div 2, CellSize + CellSize \div 2),
     DownRay(-3, CellSize - 2)}

InitFlow ==
    /\ InitOf(FlowConfigs, {<<>>, <<QuadZ(0, 0, 0, TRUE)>>}, {FrameZ}, {Zero3})
    /\ grid_call = NoGridCall
    /\ NoSnapCall

FlowPress ==
    /\ Handling
    /\ LeftPressOf(FlowRays, {"first"}, {TRUE}, {FALSE})

FlowMove ==
    /\ Handling
    /\ MouseMoveOf(FlowRays, {"first"}, {TRUE}, {FALSE})

NextFlow ==
    \/ FlowPress
    \/ FlowMove

SpecFlow == InitFlow /\ [][NextFlow]_vars

---------------------------------------------------------------------------
(* Properties of flow_cursor, under SpecFlow.                               *)

\* whether the cosine of a against d is at least that of b against d, the
\* cosine of the zero vector being 0 (its normalisation is the zero vector)
CosineAtLeast(a, b, d) ==
    Sign(Dot(a, d)) * Dot(a, d) * Dot(a, d) * (IF MagSq(b) = 0 THEN 1 ELSE MagSq(b))
        >= Sign(Dot(b, d)) * Dot(b, d) * Dot(b, d) * (IF MagSq(a) = 0 THEN 1 ELSE MagSq(a))

\* the world positions of the vertices of the face whose score
\* |1 - cosine| against the direction d from the point pos is least
LeastScorePositions(verts, pos, d, matrix_world) ==
    {VAdd(verts[i], matrix_world) : i \in
        {i \in 1..Len(verts) :
            \A j \in 1..Len(verts) :
                CosineAtLeast(VSub(VAdd(verts[i], matrix_world), pos),
                              VSub(VAdd(verts[j], matrix_world), pos), d)}}

\* C20: flow_cursor with at least 2 history entries moves the reference
\* cursor to the world position of a vertex of the face whose score is the
\* least over the face's vertices; with fewer entries it leaves the
\* reference cursor unchanged.
C20_FlowToLeastScore ==
    [][last_call'.flow.called =>
         IF Len(virtual_cursor') >= 2
         THEN cursor_location' \in
                LeastScorePositions(faces'[last_call'.flow.face_index].verts,
                                    last_call'.flow.virtual_cursor,
                                    SegmentSum(virtual_cursor', 1),
                                    config.matrix_world)
         ELSE cursor_location' = cursor_location]_vars

---------------------------------------------------------------------------
(* SpecAbsent: strokes in paint and build mode, the exit of the session,    *)
(* and then execute_tool and cursor_snap called on the operator that has    *)
(* ended, its tree None.                                                    *)

AbsentConfigs ==
    {[BaseConfig EXCEPT !.paint_mode = m, !.cursor_snap = c] :
        m \in {"PAINT", "MAKE_FACE"}, c \in {"GRID", "VERTEX"}}

InitAbsent ==
    /\ InitOf(AbsentConfigs, {<<>>, <<QuadZ(0, 0, 0, TRUE)>>}, {FrameZ}, {Zero3})
    /\ grid_call = NoGridCall
    /\ NoSnapCall

AbsentPress ==
    /\ Handling
    /\ LeftPressOf(ToolRays, {"first"}, {TRUE}, {FALSE})

AbsentRelease ==
    /\ Handling
    /\ LeftReleaseOf({TRUE}, {FALSE})

AbsentExit ==
    /\ Handling
    /\ ButtonOf({"RIGHTMOUSE"}, {TRUE}, {FALSE})

\* a method called on the operator outside modal(): s is the state it leaves
Called(s) ==
    /\ Store(s)
    /\ modal_result' = IF s.raised THEN "ERROR" ELSE modal_result
    /\ UNCHANGED button_held

Calling(method) ==
    [State EXCEPT !.trace.type = method, !.trace.inside = TRUE,
                  !.trace.len_before = Len(virtual_cursor),
                  !.trace.faces_before = Len(faces)]

CallTool ==
    /\ ~is_running
    /\ \E ray \in ToolRays : Called(execute_tool(Calling("execute_tool"), ray, "first"))

CallSnap ==
    /\ ~is_running
    /\ \E ray \in ToolRays : Called(cursor_snap(Calling("cursor_snap"), ray, "first"))

NextAbsent ==
    \/ AbsentPress
    \/ AbsentRelease
    \/ AbsentExit
    \/ CallTool
    \/ CallSnap

SpecAbsent == InitAbsent /\ [][NextAbsent]_vars

---------------------------------------------------------------------------
(* Properties of the query operations without a tree, under SpecAbsent.     *)

\* C17: with the tree None, execute_tool (paint or build mode) and
\* cursor_snap (grid or vertex mode) return without raising and leave the
\* mesh, the virtual cursor history and the reference cursor unchanged.
C17_AbsentTreeNoOp ==
    [][(tree = TreeNone /\ last_call'.type \in {"execute_tool", "cursor_snap"})
       => (/\ faces' = faces
           /\ virtual_cursor' = virtual_cursor
           /\ cursor_location' = cursor_location
           /\ modal_result' # "ERROR"
           /\ last_call'.ran = "none")]_vars

\* execute_tool called in build mode after the exit of a session that built
\* a face
C17_Witness ==
    /\ tree = TreeNone
    /\ last_call.type = "execute_tool"
    /\ config.paint_mode = "MAKE_FACE"
    /\ Len(faces) = 2
    /\ Len(virtual_cursor) > 0
    /\ modal_result = "CANCELLED"

---------------------------------------------------------------------------
(* SpecGui: pointer events inside the region, in paint and build mode, with *)
(* the GL GUI taking and giving back the mouse between them.                *)

GuiPress ==
    /\ Handling
    /\ LeftPressOf(SessionRays, {"first"}, {TRUE}, {FALSE})

GuiRelease ==
    /\ Handling
    /\ LeftReleaseOf({TRUE}, {FALSE})

GuiMove ==
    /\ Handling
    /\ MouseMoveOf(SessionRays, {"first"}, {TRUE}, {FALSE})

GuiCancel ==
    /\ Handling
    /\ ButtonOf({"RIGHTMOUSE", "ESC"}, {TRUE}, {FALSE})

GuiSnapKey ==
    /\ Handling
    /\ KeyOf({"S"}, {TRUE}, {FALSE})

NextGui ==
    \/ GuiPress
    \/ GuiRelease
    \/ GuiMove
    \/ GuiCancel
    \/ GuiSnapKey
    \/ GuiToggle

SpecGui == Init /\ [][NextGui]_vars

---------------------------------------------------------------------------
(* Properties of the session while the GUI owns the pointer, under SpecGui. *)

PointerEvents == {"LEFTMOUSE", "MOUSEMOVE", "RIGHTMOUSE", "ESC"}

\* C15: while gui_use_mouse is true no pointer press, release, move or
\* cancel event changes the mesh (vertices, faces, UVs, materials), the
\* virtual cursor history or the reference cursor, and the session does not
\* exit.
C15_GuiOwnsPointer ==
    [][(gui_use_mouse /\ last_call'.type \in PointerEvents)
       => (/\ faces' = faces
           /\ virtual_cursor' = virtual_cursor
           /\ cursor_location' = cursor_location
           /\ is_running'
           /\ modal_result' = "RUNNING_MODAL")]_vars

\* a move with the button down and a face already built, the GUI owning the
\* pointer: execute_tool was called and returned at its guard
C15_Witness ==
    /\ gui_use_mouse
    /\ last_call.type = "MOUSEMOVE"
    /\ left_down
    /\ Len(faces) = 2
    /\ last_call.ran = "none"
    /\ tree.built

---------------------------------------------------------------------------
(* SpecBuild: one stroke in build mode on an empty mesh, a press and the    *)
(* moves that follow it, in a painting frame for each signed axis as the    *)
(* normal, with the reference cursor at the world origin and away from it,  *)
(* the pointer over each of the four cells around the reference cursor.     *)

BuildConfigs == {[BaseConfig EXCEPT !.paint_mode = "MAKE_FACE"]}

\* one frame for each of the six normals, the up vectors of both signs
BuildFrames ==
    {[normal |-> AxisZ, up |-> AxisY],
     [normal |-> VScale(AxisZ, -1), up |-> VScale(AxisX, -1)],
     [normal |-> AxisY, up |-> AxisX],
     [normal |-> VScale(AxisY, -1), up |-> AxisZ],
     [normal |-> AxisX, up |-> VScale(AxisZ, -1)],
     [normal |-> VScale(AxisX, -1), up |-> VScale(AxisY, -1)]}

BuildCursors == {Zero3, <<3 * CellSize, -2 * CellSize, CellSize>>}

\* rays onto the middles of the four cells around the point c of the plane
\* of the frame, cast against the plane normal
PlaneRays(c, normal, up) ==
    {Ray(VAdd(VAdd(c, VScale(normal, 4 * CellSize)),
              VAdd(VScale(Cross(up, normal), a * (CellSize \div 2)),
                   VScale(up, b * (CellSize \div 2)))),
         VScale(normal, -1)) : a \in {-1, 1}, b \in {-1, 1}}

InitBuild ==
    /\ InitOf(BuildConfigs, {<<>>}, BuildFrames, BuildCursors)
    /\ grid_call = NoGridCall
    /\ NoSnapCall

BuildPress ==
    /\ Handling
    /\ LeftPressOf(PlaneRays(cursor_location, paint_normal_vector, paint_up_vector),
                   {"first"}, {TRUE}, {FALSE})

BuildMove ==
    /\ Handling
    /\ MouseMoveOf(PlaneRays(cursor_location, paint_normal_vector, paint_up_vector),
                   {"first"}, {TRUE}, {FALSE})

NextBuild ==
    \/ BuildPress
    \/ BuildMove

SpecBuild == InitBuild /\ [][NextBuild]_vars

---------------------------------------------------------------------------
(* Properties of build_face, under SpecBuild.                               *)

BuildCalled == last_call.build.called

\* whether two vectors point the same way
Agree(a, b) == Dot(a, b) > 0

NewestFace == faces[Len(faces)]

\* C12: build_face adds one face of four vertices; with P1 the cell origin,
\* P2 = P1 + upEdge, P3 = P1 + rightEdge + upEdge, P4 = P1 + rightEdge, its
\* order is (P1, P4, P3, P2) when painting-right agrees with rightEdge
\* exactly when painting-up agrees with upEdge, and (P1, P2, P3, P4)
\* otherwise; the faces there were are kept.
C12_WindingRule ==
    /\ [](BuildCalled =>
            LET b == last_call.build
                P1 == b.face_position
                P2 == VAdd(P1, b.y_vector)
                P3 == VAdd(VAdd(P1, b.x_vector), b.y_vector)
                P4 == VAdd(P1, b.x_vector)
            IN  /\ Len(faces) = last_call.faces_before + 1
                /\ Len(NewestFace.verts) = 4
                /\ NewestFace.verts =
                      IF Agree(b.right_vector, b.x_vector) = Agree(b.up_vector, b.y_vector)
                      THEN <<P1, P4, P3, P2>>
                      ELSE <<P1, P2, P3, P4>>)
    /\ [][last_call'.build.called => SubSeq(faces', 1, Len(faces)) = faces]_vars

\* a face built where the edge vectors disagree with the painting frame in
\* one direction only, on a mesh that already has a face
C12_Witness ==
    /\ BuildCalled
    /\ last_call.faces_before = 1
    /\ Len(faces) = 2
    /\ Agree(last_call.build.right_vector, last_call.build.x_vector)
    /\ ~Agree(last_call.build.up_vector, last_call.build.y_vector)
    /\ NewestFace.verts[2] = VAdd(last_call.build.face_position, last_call.build.y_vector)

\* C13: with the identity transform and right = up x normal, the winding of
\* every face a build event creates has its right-hand-rule normal along
\* the painting plane normal.
C13_NormalAlongPlaneNormal ==
    (/\ BuildCalled
     /\ config.matrix_world = Zero3
     /\ last_call.build.right_vector = Cross(paint_up_vector, paint_normal_vector))
    => FaceNormal(NewestFace.verts) = paint_normal_vector

\* a face built with both edge vectors against the painting frame
C13_Witness ==
    /\ BuildCalled
    /\ config.matrix_world = Zero3
    /\ ~Agree(last_call.build.right_vector, last_call.build.x_vector)
    /\ ~Agree(last_call.build.up_vector, last_call.build.y_vector)
    /\ FaceNormal(NewestFace.verts) = paint_normal_vector

---------------------------------------------------------------------------
(* SpecSnap: snap_vector_to_axis on the non-zero vectors of a small cube,   *)
(* mirrored and not.                                                        *)

SnapRange == 2

SnapCalls ==
    {[vector |-> <<x, y, z>>, mirrored |-> m] :
        x \in (-SnapRange)..SnapRange, y \in (-SnapRange)..SnapRange,
        z \in (-SnapRange)..SnapRange, m \in BOOLEAN} \
    {[vector |-> Zero3, mirrored |-> m] : m \in BOOLEAN}

InitSnap ==
    /\ InitOf({BaseConfig}, {<<>>}, {FrameZ}, {Zero3})
    /\ grid_call = NoGridCall
    /\ snap_call \in SnapCalls
    /\ snap_ret = [done |-> FALSE, snapped_vector |-> Zero3]

SnapCall ==
    /\ ~snap_ret.done
    /\ snap_ret' = [done |-> TRUE,
                    snapped_vector |-> snap_vector_to_axis(snap_call.vector,
                                                           snap_call.mirrored)]
    /\ UNCHANGED <<grid_call, grid_ret, snap_call>>
    /\ UnchangedSession

NextSnap == SnapCall

SpecSnap == InitSnap /\ [][NextSnap]_vars

---------------------------------------------------------------------------
(* Properties of snap_vector_to_axis, under SpecSnap.                       *)

\* the axes on which the |component| of v is greatest
TiedAxes(v) == {i \in 1..3 : \A j \in 1..3 : Abs(v[i]) >= Abs(v[j])}

AxisOf(i) == <<IF i = 1 THEN 1 ELSE 0, IF i = 2 THEN 1 ELSE 0, IF i = 3 THEN 1 ELSE 0>>

\* C11: for a non-zero vector the result lies on the first axis, in the
\* order X, Y, Z, among those of greatest |component| (the one axis of
\* greatest alignment when it is unique), and its sign along that axis is
\* the sign of the vector's component when mirrored is false and the
\* opposite sign when mirrored is true.
C11_SnapToAxis ==
    snap_ret.done =>
        \E i \in TiedAxes(snap_call.vector) :
            /\ \A j \in TiedAxes(snap_call.vector) : i <= j
            /\ snap_ret.snapped_vector =
                  VScale(AxisOf(i), IF snap_call.mirrored THEN -Sign(snap_call.vector[i])
                                    ELSE Sign(snap_call.vector[i]))

\* the tie (1,1,0), and a mirrored call, both snapped
C11_Witness ==
    /\ snap_ret.done
    /\ snap_call.vector = <<1, 1, 0>>
    /\ snap_call.mirrored
    /\ snap_ret.snapped_vector = <<-1, 0, 0>>

---------------------------------------------------------------------------
(* Properties of execute_tool, under SpecTool.                              *)

\* a build-mode event whose raycast hit a face at distance 0 from the
\* reference plane, the dot of the plane normal and the face normal given
BuildHitOnPlane(st, dot) ==
    /\ st.ran = "execute_tool"
    /\ config.paint_mode = "MAKE_FACE"
    /\ st.hit
    /\ st.hit_dot = dot
    /\ st.hit_dist = 0

\* C1 as stated: in build mode a hit on a face whose normal is exactly
\* opposite the plane normal, at distance 0 from the reference plane, takes
\* the paint-over path and adds no face.
C1_OppositeNormalPaintsOver ==
    BuildHitOnPlane(last_call, -1)
        => (last_call.path = "paint_over" /\ Len(faces) = last_call.faces_before)

\* C1: in build mode a hit on a face whose normal is exactly the plane
\* normal, at distance 0 from the reference plane, takes the paint-over
\* path, UV-maps the hit face, and leaves the vertices and faces of the
\* mesh as they were.
C1_SameNormalPaintsOver ==
    /\ [](BuildHitOnPlane(last_call, 1)
            => (last_call.path = "paint_over" /\ Len(faces) = last_call.faces_before))
    /\ [][BuildHitOnPlane(last_call', 1) => Geometry(faces') = Geometry(faces)]_vars

C1_Witness ==
    /\ BuildHitOnPlane(last_call, 1)
    /\ last_call.path = "paint_over"
    /\ ~last_call.uv_noop
    /\ Len(faces) = last_call.faces_before
    /\ \E i \in 1..Len(faces) : faces[i].uv # NewFace(faces[i].verts).uv

\* the tool ran and its ray met nothing: in paint mode no face, in build
\* mode no face and not the grid plane
NoIntersection(st) ==
    /\ st.ran = "execute_tool"
    /\ st.raycast
    /\ ~st.hit
    /\ config.paint_mode = "MAKE_FACE" => st.plane = "miss"

\* C18: an event whose ray misses the mesh in paint mode, or misses the
\* mesh and the grid plane in build mode, leaves the mesh, the virtual
\* cursor history and the reference cursor unchanged, and the session
\* running.
C18_NoIntersectionNoOp ==
    [][NoIntersection(last_call')
       => (/\ faces' = faces
           /\ virtual_cursor' = virtual_cursor
           /\ cursor_location' = cursor_location
           /\ is_running'
           /\ modal_result' = "RUNNING_MODAL")]_vars

\* a build-mode move along the plane, after a face was built and the
\* history started
C18_Witness ==
    /\ NoIntersection(last_call)
    /\ config.paint_mode = "MAKE_FACE"
    /\ last_call.type = "MOUSEMOVE"
    /\ last_call.path = "no_plane"
    /\ Len(faces) = 2
    /\ Len(virtual_cursor) > 0

\* the face uv_map_face wrote in the last event
MappedFace == faces[last_call.uv_face]

\* four times the offset of vertex i of the mapped face from the centroid
Offset4(i) == VSub(VScale(MappedFace.verts[i], 4), VertSum(MappedFace.verts))

\* the fraction uv = <<n, d>> is (tile + 1/2 + offset4 / (4 * cell)) * pixels / size
IsTileUV(uv, tile, offset4, cell, pixels, size) ==
    /\ uv[2] > 0
    /\ uv[1] * (8 * cell * size) = uv[2] * ((8 * cell * tile + 4 * cell + 2 * offset4) * pixels)

\* C14: uv_map_face with tile (c, r) gives each loop vertex the UV
\* ((c + 0.5 + x / cellWorldWidth) * uvUnit.x,
\*  (r + 0.5 + y / cellWorldHeight) * uvUnit.y), with (x, y) the offset of
\* the vertex from the face centroid along right and up, and uvUnit the
\* cell's pixels over the texture's pixels.
C14_TileUV ==
    last_call.uv_face > 0 =>
        \A i \in 1..4 :
            /\ IsTileUV(MappedFace.uv[i][1], config.tile_selection[1],
                        Dot(Cross(paint_up_vector, paint_normal_vector), Offset4(i)),
                        CellUnit(config.grid[1], config.world_pixels),
                        config.grid[1], config.texture[1])
            /\ IsTileUV(MappedFace.uv[i][2], config.tile_selection[2],
                        Dot(paint_up_vector, Offset4(i)),
                        CellUnit(config.grid[2], config.world_pixels),
                        config.grid[2], config.texture[2])

\* the corners of a cell-sized quad on the corners of tile (2, 1) of a
\* texture 8 tiles wide and high
C14_Witness ==
    /\ last_call.uv_face > 0
    /\ config.tile_selection = <<2, 1>>
    /\ {MappedFace.uv[i] : i \in 1..4}
          = {<<<<1, 4>>, <<1, 8>>>>, <<<<3, 8>>, <<1, 8>>>>,
             <<<<3, 8>>, <<1, 4>>>>, <<<<1, 4>>, <<1, 4>>>>}

\* C4: a paint-mode event whose ray hits a face that uv_map_face cannot map,
\* the texture missing or the face index out of range, raises no error,
\* leaves the faces as they were, and leaves the session running.
C4_UnmappableHitIsNoOp ==
    [][(/\ last_call'.ran = "execute_tool"
        /\ last_call'.path = "paint"
        /\ last_call'.uv_noop)
       => (/\ modal_result' # "ERROR"
           /\ faces' = faces
           /\ is_running')]_vars

\* C22: in build mode the paint-over path updates the hit face as a
\* paint-mode hit does: the sample is in the history, the face is UV-mapped,
\* its material index is the grid's material when that material exists, and
\* no face is created.
C22_PaintOverAsPaint ==
    (last_call.path = "paint_over" /\ ~last_call.uv_noop) =>
        /\ Len(virtual_cursor) > 0
        /\ last_call.uv_face \in 1..Len(faces)
        /\ Len(faces) = last_call.faces_before
        /\ config.mat_id > -1 => MappedFace.material_index = config.mat_id

---------------------------------------------------------------------------
(* Properties of the virtual cursor, under SpecCursor.                      *)

AddCalled == last_call.type = "add_virtual_cursor"

\* C7: reversal reset. When add_virtual_cursor is called on a history of at
\* least two entries with a position whose displacement from the last entry
\* is at least the motion threshold long and has a negative dot product with
\* the direction of the history, the history afterwards is exactly the new
\* position.
C7_ReversalReset ==
    [][(/\ AddCalled'
        /\ Len(virtual_cursor) >= 2
        /\ MagSq(VSub(last_call'.pos, virtual_cursor[Len(virtual_cursor)]))
               >= MotionThreshold * MotionThreshold
        /\ Dot(SegmentSum(virtual_cursor, 1),
               VSub(last_call'.pos, virtual_cursor[Len(virtual_cursor)])) < 0)
       => virtual_cursor' = <<last_call'.pos>>]_vars

C7_Witness ==
    /\ AddCalled
    /\ last_call.note = "reversal"
    /\ last_call.len_before >= 2
    /\ virtual_cursor = <<last_call.pos>>

\* C8: the history never holds more than 3 entries, and a sample accepted
\* along the direction of a full history evicts the oldest entry and keeps
\* the other two, in order, ahead of the new one.
C8_HistoryBound ==
    /\ [](Len(virtual_cursor) <= HistoryCapacity)
    /\ [][(/\ AddCalled'
           /\ last_call'.note = "forward"
           /\ Len(virtual_cursor) = HistoryCapacity)
          => virtual_cursor' = <<virtual_cursor[2], virtual_cursor[3], last_call'.pos>>]_vars

C8_Witness ==
    /\ AddCalled
    /\ last_call.note = "forward"
    /\ last_call.len_before = HistoryCapacity
    /\ Len(virtual_cursor) = HistoryCapacity
    /\ virtual_cursor[HistoryCapacity] = last_call.pos

\* C9: consecutive entries of the history are at least the motion threshold
\* apart, and add_virtual_cursor on a non-empty history with a position
\* nearer than the threshold to the last entry leaves the history unchanged.
C9_MinimumMotion ==
    /\ [](\A i \in 1..(Len(virtual_cursor) - 1) :
            MagSq(VSub(virtual_cursor[i + 1], virtual_cursor[i]))
                >= MotionThreshold * MotionThreshold)
    /\ [][(/\ AddCalled'
           /\ Len(virtual_cursor) > 0
           /\ MagSq(VSub(last_call'.pos, virtual_cursor[Len(virtual_cursor)]))
                  < MotionThreshold * MotionThreshold)
          => virtual_cursor' = virtual_cursor]_vars

C9_Witness ==
    /\ AddCalled
    /\ last_call.note = "near"
    /\ Len(virtual_cursor) >= 2
    /\ last_call.pos # virtual_cursor[Len(virtual_cursor)]

\* C10: a step that changes the axis mode leaves the history empty, and a
\* timer tick that leaves the axis mode unchanged leaves the history
\* unchanged.
C10_ModeSwitchClears ==
    /\ [][normal_mode' # normal_mode => virtual_cursor' = <<>>]_vars
    /\ [][(last_call'.type = "TIMER" /\ normal_mode' = normal_mode)
              => virtual_cursor' = virtual_cursor]_vars

C10_Witness ==
    /\ last_call.type = "TIMER"
    /\ last_call.note = "mode_change"
    /\ last_call.len_before > 0
    /\ virtual_cursor = <<>>

---------------------------------------------------------------------------
(* Properties of get_grid_pos, under SpecGrid.                              *)

Resnapped == grid_ret.stage = "resnapped"

Negated(v) == VScale(v, -1)

\* C3 as stated: get_grid_pos on the cell position it returned gives the
\* whole result again, the cell position and both edge vectors.
C3_WholeResultIdempotent ==
    Resnapped => grid_ret.second = grid_ret.first

\* C3: get_grid_pos on the cell position it returned gives the same cell
\* position again, and edge vectors that are those of the first call or
\* their negations.
C3_CellPositionIdempotent ==
    Resnapped =>
        /\ grid_ret.second.grid_pos = grid_ret.first.grid_pos
        /\ grid_ret.second.right_vector
              \in {grid_ret.first.right_vector, Negated(grid_ret.first.right_vector)}
        /\ grid_ret.second.up_vector
              \in {grid_ret.first.up_vector, Negated(grid_ret.first.up_vector)}

\* a sample off the lattice, below and left of the grid centre, re-snapped
C3_Witness ==
    /\ Resnapped
    /\ grid_ret.first.grid_pos # grid_call.position
    /\ grid_ret.first.grid_pos # grid_call.grid_center
    /\ grid_ret.first.right_vector = Negated(grid_ret.second.right_vector)
    /\ grid_ret.second.grid_pos = grid_ret.first.grid_pos

\* C21: for every sample and every grid origin, the right and up edge
\* vectors get_grid_pos returns each have a non-negative dot product with
\* the vector from the grid origin to the sample.
C21_EdgesTowardSample ==
    grid_ret.stage # "none" =>
        /\ Dot(grid_ret.first.right_vector,
               VSub(grid_call.position, grid_call.grid_center)) >= 0
        /\ Dot(grid_ret.first.up_vector,
               VSub(grid_call.position, grid_call.grid_center)) >= 0

---------------------------------------------------------------------------
(* Properties of the session, under Spec.                                   *)

\* C2: every mesh raycast made by execute_tool or cursor_snap uses a tree
\* built from the geometry the mesh has when the ray is cast.
C2_RaycastUsesCurrentTree ==
    last_call.raycast => ~last_call.stale

\* C5: a cancel event, right mouse button or Escape, delivered inside the
\* region while the GUI does not own the pointer ends the session on that
\* event: the tree is released, the timer removed, is_running false.
C5_CancelEndsSession ==
    (/\ last_call.type \in {"RIGHTMOUSE", "ESC"}
     /\ last_call.inside
     /\ ~gui_use_mouse)
    => (/\ ~is_running
        /\ tree = TreeNone
        /\ ~view_axis_timer
        /\ modal_result = "CANCELLED"
        /\ Len(faces) = last_call.faces_before)

\* C6: a pointer-move event calls execute_tool only while the left button
\* is held.
C6_ToolOnlyWhileHeld ==
    (last_call.type = "MOUSEMOVE" /\ last_call.ran = "execute_tool") => button_held

---------------------------------------------------------------------------
(* Properties of find_view_axis on a tick, under SpecCursor.                *)

\* C16: a tick on which the normal is locked, or the snapped normal and up
\* are not perpendicular, leaves the painting normal, the up vector, the
\* axis mode and the history unchanged and reports no failure; the stored
\* normal and up are perpendicular in every state.
C16_DegenerateFrameDiscarded ==
    /\ [][(/\ last_call'.type = "TIMER"
           /\ last_call'.note \in {"locked", "not_perpendicular"})
          => (/\ paint_normal_vector' = paint_normal_vector
              /\ paint_up_vector' = paint_up_vector
              /\ normal_mode' = normal_mode
              /\ virtual_cursor' = virtual_cursor
              /\ modal_result' = "PASS_THROUGH")]_vars
    /\ [](Dot(paint_normal_vector, paint_up_vector) = 0)

\* a tick with a view whose snapped vectors are both on the X axis, after a
\* tick that stored another frame and samples that filled the history
C16_Witness ==
    /\ last_call.type = "TIMER"
    /\ last_call.note = "not_perpendicular"
    /\ ~config.lock_normal
    /\ normal_mode # "Z"
    /\ Len(virtual_cursor) >= 2
    /\ modal_result = "PASS_THROUGH"

---------------------------------------------------------------------------
(* Properties of get_virtual_cursor_vector, under SpecCursor.               *)

\* C19: get_virtual_cursor_vector returns the sum of the differences of
\* consecutive entries divided by the number of differences, and the zero
\* vector for a history of fewer than 2 entries.  The value returned is
\* sum / div.
C19_AverageOfDifferences ==
    LET returned == get_virtual_cursor_vector(virtual_cursor)
        differences == Len(virtual_cursor) - 1
    IN  IF Len(virtual_cursor) < 2 THEN returned.sum = Zero3
        ELSE VScale(returned.sum, differences)
                = VScale(SegmentSum(virtual_cursor, 1), returned.div)

=============================================================================
